---- MODULE Spec2Model ----
(***************************************************************************)
(* Ingestion pipeline of the AI news aggregator: the article text/author   *)
(* extractors (scraper.py, rss.py), the feed entry normaliser and recency  *)
(* filter (rss.py), the Reddit and X clients and the URL orchestrator      *)
(* (social.py).                                                            *)
(*                                                                         *)
(* Conventions.  An Optional value is a sequence of length 0 (None) or 1.  *)
(* A text is a sequence of word tokens; the token "NL" is the whitespace   *)
(* the paragraph join inserts.  A URL is a sequence of substrings, split   *)
(* so that every pattern the code searches for is one token.  A function   *)
(* that may raise returns a record with the field exc.                     *)
(***************************************************************************)
EXTENDS Integers, Sequences, FiniteSets, TLC

VARIABLES
    xDoc, xScraper, xRss,                 \* extractor runs
    pEntries, pNet, pOut,                 \* parse_entries runs
    urls, hours, now, idx, combined, hist, pc,  \* collect_from_urls runs
    cArgs, cTty, cInput,                  \* fetch_rss.py: --url values, isatty, stdin lines
    cUrls, cIdx, cCombined, cLog, cWritten, cExit, cPc,   \* fetch_rss.py main
    fResp, fResp2, fResolve, fFeed, fRecent   \* feed resolver runs

extractVars == <<xDoc, xScraper, xRss>>
parseVars == <<pEntries, pNet, pOut>>
collectVars == <<urls, hours, now, idx, combined, hist, pc>>
cliVars == <<cArgs, cTty, cInput, cUrls, cIdx, cCombined, cLog, cWritten, cExit, cPc>>
feedVars == <<fResp, fResp2, fResolve, fFeed, fRecent>>
vars == <<xDoc, xScraper, xRss, pEntries, pNet, pOut,
          urls, hours, now, idx, combined, hist, pc,
          cArgs, cTty, cInput, cUrls, cIdx, cCombined, cLog, cWritten, cExit, cPc,
          fResp, fResp2, fResolve, fFeed, fRecent>>

----------------------------------------------------------------------------
(* Bounds *)

MaxParas == 2
MaxEntries == 2
MaxUrls == 2
MaxArgs == 2
MaxLines == 2
MaxLinks == 2
MaxAnchors == 2

----------------------------------------------------------------------------
(* Generic helpers *)

None == <<>>
Some(v) == <<v>>
Range(s) == {s[i] : i \in 1..Len(s)}
SeqsUpTo(S, n) == UNION {[1..k -> S] : k \in 0..n}

RECURSIVE Flatten(_)
Flatten(ss) == IF ss = <<>> THEN <<>> ELSE Head(ss) \o Flatten(Tail(ss))

NoDup(s) == \A i, j \in 1..Len(s) : s[i] = s[j] => i = j

Raise(kind) == [exc |-> TRUE, kind |-> kind]

----------------------------------------------------------------------------
(* HTML documents, as BeautifulSoup sees them after script/style removal.  *)
(* article, roleMain, idMain: Optional text of the first such element.     *)
(* ps: the texts of the <p> elements in document order.                    *)
(* parser: whether the lxml and html.parser back ends accept the input.    *)

EmptyDoc ==
    [parser |-> "ok", article |-> None, roleMain |-> None, idMain |-> None,
     ps |-> <<>>, metaAuthor |-> None, metaProps |-> <<None, None, None>>,
     relAuthor |-> None, selectors |-> <<None, None, None, None>>]

\* An HTTP response: status "ok" is a 2xx answer, "timeout" and "http_error"
\* make requests.get / raise_for_status raise.  json is "bad" when resp.json()
\* raises, body is the decoded JSON; ctype, feed, links and anchors are the
\* Content-Type header, what feedparser makes of the body, and its <link> and
\* <a href> elements; doc is the body as an HTML document.
Resp0 ==
    [status |-> "ok", json |-> "ok", body |-> [kind |-> "str"], ctype |-> "text/html",
     feed |-> [title |-> <<>>, entries |-> <<>>], links |-> <<>>, anchors |-> <<>>,
     doc |-> EmptyDoc]

OkResp(doc) == [Resp0 EXCEPT !.doc = doc]
FailResp(status) == [Resp0 EXCEPT !.status = status]

\* BeautifulSoup(html, "lxml") with the html.parser retry
MakeSoup(doc) ==
    IF doc.parser = "none" THEN Raise("parse") ELSE [exc |-> FALSE, soup |-> doc]

\* str.strip() on a text: leading and trailing whitespace tokens removed
RECURSIVE LStrip(_)
LStrip(t) == IF t # <<>> /\ Head(t) = "NL" THEN LStrip(Tail(t)) ELSE t

RECURSIVE RStrip(_)
RStrip(t) ==
    IF t # <<>> /\ t[Len(t)] = "NL" THEN RStrip(SubSeq(t, 1, Len(t) - 1)) ELSE t

StripText(t) == RStrip(LStrip(t))

\* "\n\n".join(ps)
RECURSIVE JoinParas(_)
JoinParas(ps) ==
    IF ps = <<>> THEN <<>>
    ELSE IF Len(ps) = 1 THEN ps[1]
    ELSE ps[1] \o <<"NL">> \o JoinParas(Tail(ps))

\* soup.find(attrs={"role": "main"}) or soup.find(id="main")
FindMain(doc) == IF doc.roleMain # None THEN doc.roleMain ELSE doc.idMain

\* scraper.extract_text: Optional text
extract_text(doc) ==
    LET s == MakeSoup(doc) IN
    IF s.exc THEN s
    ELSE IF doc.article # None /\ doc.article[1] # <<>>
         THEN [exc |-> FALSE, text |-> doc.article]
    ELSE IF FindMain(doc) # None /\ FindMain(doc)[1] # <<>>
         THEN [exc |-> FALSE, text |-> FindMain(doc)]
    ELSE IF doc.ps # <<>> /\ StripText(JoinParas(doc.ps)) # <<>>
         THEN [exc |-> FALSE, text |-> Some(StripText(JoinParas(doc.ps)))]
    ELSE [exc |-> FALSE, text |-> None]

\* str.strip() on an attribute value
StripStr(s) == CASE s = "  " -> "" [] s = " J " -> "J" [] OTHER -> s

\* The text selection of rss._fetch_article_content (lines 123-137)
ArticleTextOf(doc) ==
    IF doc.article # None THEN doc.article[1]
    ELSE IF FindMain(doc) # None THEN FindMain(doc)[1]
    ELSE StripText(JoinParas(doc.ps))

\* meta name=author, then the three meta property tags, then rel=author
MetaAuthors(doc) ==
    (IF doc.metaAuthor # None /\ doc.metaAuthor[1] # ""
     THEN <<StripStr(doc.metaAuthor[1])>> ELSE <<>>)
    \o Flatten([i \in 1..3 |->
         IF doc.metaProps[i] # None /\ doc.metaProps[i][1] # ""
         THEN <<StripStr(doc.metaProps[i][1])>> ELSE <<>>])
    \o (IF doc.relAuthor # None /\ doc.relAuthor[1] # ""
        THEN <<doc.relAuthor[1]>> ELSE <<>>)

\* The selector loop: the first selector whose node has non-empty text
RECURSIVE FirstSelector(_, _)
FirstSelector(sels, i) ==
    IF i > Len(sels) THEN <<>>
    ELSE IF sels[i] # None /\ sels[i][1] # "" THEN <<sels[i][1]>>
    ELSE FirstSelector(sels, i + 1)

\* Mutant of the de-duplication: nothing is removed
DedupAuthors_keepAll(authors) == authors

\* [a for i, a in enumerate(authors) if a and a not in authors[:i]]
DedupAuthors(authors) ==
    LET keep(i) == authors[i] # "" /\ \A j \in 1..(i - 1) : authors[j] # authors[i]
        F[i \in 0..Len(authors)] ==
            IF i = 0 THEN <<>>
            ELSE IF keep(i) THEN Append(F[i - 1], authors[i]) ELSE F[i - 1]
    IN F[Len(authors)]

\* if not authors:
UseSelectors(authors) == authors = <<>>

\* The author heuristics of rss._fetch_article_content (lines 139-167);
\* selUsed records whether the selector list was consulted.
PageAuthors(doc) ==
    LET Rest(primary) ==
            [authors |-> DedupAuthors(IF UseSelectors(primary)
                                      THEN primary \o FirstSelector(doc.selectors, 1)
                                      ELSE primary),
             selUsed |-> UseSelectors(primary)]
    IN Rest(MetaAuthors(doc))

\* rss._fetch_article_content on a fetched response
_fetch_article_content(resp) ==
    IF resp.status # "ok" THEN Raise(resp.status)
    ELSE LET Result(text, pa) ==
                 [exc |-> FALSE,
                  text |-> IF text # <<>> THEN Some(text) ELSE None,
                  authors |-> pa.authors,
                  selUsed |-> pa.selUsed]
         IN IF MakeSoup(resp.doc).exc THEN MakeSoup(resp.doc)
            ELSE Result(ArticleTextOf(resp.doc), PageAuthors(resp.doc))

----------------------------------------------------------------------------
(* Documents the extractors are run on *)

TextValues == {<<>>, <<"a">>}
OptTexts == {None} \cup {Some(t) : t \in TextValues}

TextDocs ==
    {[EmptyDoc EXCEPT !.parser = pr, !.article = a, !.roleMain = r,
                      !.idMain = m, !.ps = ps] :
        pr \in {"ok"}, a \in OptTexts, r \in OptTexts, m \in OptTexts,
        ps \in SeqsUpTo({<<>>, <<"p">>}, MaxParas)}
    \cup {[EmptyDoc EXCEPT !.parser = pr, !.article = Some(<<"a">>)] :
            pr \in {"html.parser", "none"}}

AuthorDocs ==
    {[EmptyDoc EXCEPT !.metaAuthor = ma, !.metaProps = <<p1, p2, None>>,
                      !.relAuthor = ra, !.selectors = <<s1, s2, None, s4>>] :
        ma \in {None, Some(""), Some("  "), Some("J"), Some(" J ")},
        p1 \in {None, Some("K")}, p2 \in {None, Some("J")},
        ra \in {None, Some(""), Some("J"), Some("M")},
        s1 \in {None, Some(""), Some("S")}, s2 \in {None, Some("T")},
        s4 \in {None, Some("S")}}

----------------------------------------------------------------------------
(* Time.  A struct_time is <<day, hour>>; a datetime is a number of hours  *)
(* since the epoch; an ISO string is <<"iso", t>>.                         *)

\* calendar.timegm(st), then datetime.fromtimestamp(ts, tz=utc)
_struct_time_to_dt(st) == IF st = None THEN None ELSE Some(st[1][1] * 24 + st[1][2])

isoformat(dt) == <<"iso", dt>>
fromisoformat(s) == s[2]

----------------------------------------------------------------------------
(* Feed entries, as feedparser hands them to parse_entries.                *)
(* content: the entry's content list (each element the "value" html);      *)
(* authors / tags: the detail lists, each element an Optional name / term. *)

TagTokens == {"<p>", "</p>", "<b>", "</b>"}

\* BeautifulSoup(html, "lxml").get_text(separator=" ", strip=True)
GetText(html) == SelectSeq(html, LAMBDA tok : tok \notin TagTokens)

\* Mutant of the timestamp choice: updated wins over published
EntryTimestamp_updatedFirst(e) ==
    IF e.updated_parsed # None THEN _struct_time_to_dt(e.updated_parsed)
    ELSE IF e.published_parsed # None THEN _struct_time_to_dt(e.published_parsed)
    ELSE None

\* rss.parse_entries lines 183-187
EntryTimestamp(e) ==
    IF e.published_parsed # None THEN _struct_time_to_dt(e.published_parsed)
    ELSE IF e.updated_parsed # None THEN _struct_time_to_dt(e.updated_parsed)
    ELSE None

\* rss.parse_entries lines 204-211
EntryAuthors(e) ==
    IF e.author # None /\ e.author[1] # "" THEN <<e.author[1]>>
    ELSE Flatten([i \in 1..Len(e.authors) |->
            IF e.authors[i] # None /\ e.authors[i][1] # ""
            THEN <<e.authors[i][1]>> ELSE <<>>])

\* rss.parse_entries lines 213-218
EntryTags(e) ==
    Flatten([i \in 1..Len(e.tags) |->
        IF e.tags[i] # None /\ e.tags[i][1] # "" THEN <<e.tags[i][1]>> ELSE <<>>])

\* getattr(e, "id", getattr(e, "guid", None) or getattr(e, "link", None))
EntryId(e) ==
    IF e.id # None THEN e.id
    ELSE IF e.guid # None /\ e.guid[1] # <<>> THEN e.guid
    ELSE e.link

\* The record built at rss.parse_entries lines 194-231, before the fallback
EntryRecord(e, feed_title, nowDt) ==
    [id |-> EntryId(e),
     title |-> e.title,
     link |-> e.link,
     published |-> isoformat(EntryTimestamp(e)[1]),
     summary |-> Some(GetText(e.summary)),
     content |-> IF e.content # <<>> THEN GetText(e.content[1]) ELSE <<>>,
     authors |-> EntryAuthors(e),
     tags |-> EntryTags(e),
     source |-> feed_title,
     fetched_at |-> isoformat(nowDt)]

\* if not content_text and normalized.get("link"):
NeedsArticle(rec) == rec.content = <<>> /\ rec.link # None /\ rec.link[1] # <<>>

\* Mutant of the fallback: a failed article fetch drops the entry's authors
ApplyArticle_clearsAuthors(rec, art) ==
    IF art.exc THEN [rec EXCEPT !.authors = <<>>]
    ELSE [rec EXCEPT
            !.content = IF art.text # None THEN art.text[1] ELSE @,
            !.authors = IF @ = <<>> /\ art.authors # <<>> THEN art.authors ELSE @]

\* rss.parse_entries lines 234-242: the try block around _fetch_article_content
ApplyArticle(rec, art) ==
    IF art.exc THEN rec
    ELSE [rec EXCEPT
            !.content = IF art.text # None THEN art.text[1] ELSE @,
            !.authors = IF @ = <<>> /\ art.authors # <<>> THEN art.authors ELSE @]

\* out.append(normalized)
EmitRecord(out, rec) == Append(out, rec)

\* rss.parse_entries.  net[i] is the response the GET of entry i's link gets.
\* trace[k] tells, for the k-th emitted record, the entry it came from, the
\* record before the fallback and whether the article GET was issued.
parse_entries(entries, feed_title, nowDt, net) ==
    LET Normalize(prev, rec, i) ==
            [out |-> EmitRecord(prev.out,
                        IF NeedsArticle(rec)
                        THEN ApplyArticle(rec, _fetch_article_content(net[i]))
                        ELSE rec),
             trace |-> Append(prev.trace,
                         [i |-> i, before |-> rec, get |-> NeedsArticle(rec)])]
        F[i \in 0..Len(entries)] ==
          IF i = 0 THEN [out |-> <<>>, trace |-> <<>>]
          ELSE IF EntryTimestamp(entries[i]) = None THEN F[i - 1]
          ELSE Normalize(F[i - 1], EntryRecord(entries[i], feed_title, nowDt), i)
    IN F[Len(entries)]

----------------------------------------------------------------------------
(* Entries and article responses parse_entries is run on *)

BaseEntry ==
    [published_parsed |-> Some(<<1, 0>>), updated_parsed |-> None,
     title |-> Some(<<"T">>), link |-> Some(<<"L1">>), id |-> None, guid |-> Some(<<"g1">>),
     summary |-> <<"<p>", "s", "</p>">>, content |-> << <<"<p>", "c", "</p>">> >>,
     author |-> None, authors |-> <<>>, tags |-> <<Some("t1"), None>>]

TimeEntries ==
    {[BaseEntry EXCEPT !.published_parsed = p, !.updated_parsed = u] :
        p \in {None, Some(<<1, 0>>)}, u \in {None, Some(<<0, 2>>), Some(<<1, 1>>)}}

ContentEntries ==
    {[BaseEntry EXCEPT !.content = c, !.link = l, !.title = Some(<<"C">>)] :
        c \in {<<>>, << <<"<b>", "</b>">> >>}, l \in {None, Some(<<"L2">>)}}

AuthorEntries ==
    {[BaseEntry EXCEPT !.author = a, !.authors = as, !.content = c, !.title = Some(<<"A">>)] :
        a \in {None, Some("A")},
        as \in {<<Some("A"), Some("B")>>, <<Some("A"), None, Some("A")>>},
        c \in {<<>>}}

EntrySet == TimeEntries \cup ContentEntries \cup AuthorEntries

ArticleResps ==
    {FailResp("timeout"), FailResp("http_error"),
     OkResp(EmptyDoc),
     OkResp([EmptyDoc EXCEPT !.parser = "none"]),
     OkResp([EmptyDoc EXCEPT !.article = Some(<<"a">>)]),
     OkResp([EmptyDoc EXCEPT !.metaAuthor = Some("J"), !.relAuthor = Some("J")]),
     OkResp([EmptyDoc EXCEPT !.ps = <<<<"p">>, <<"q">>>>, !.metaAuthor = Some("J"),
                             !.relAuthor = Some("M")])}

----------------------------------------------------------------------------
(* URLs.  Lower is str.lower() on one token. *)

Lower(tok) ==
    CASE tok = "REDDIT.COM" -> "reddit.com"
      [] tok = "News" -> "news"
      [] tok = "X.com" -> "x.com"
      [] OTHER -> tok

LowerUrl(url) == [i \in 1..Len(url) |-> Lower(url[i])]

\* pattern in lower
Contains(lower, pat) == \E i \in 1..Len(lower) : lower[i] = pat

\* lower.startswith(pat)
StartsWith(lower, pat) == lower # <<>> /\ lower[1] = pat

\* post_url.endswith(pat)
EndsWith(url, pat) == url # <<>> /\ url[Len(url)] = pat

\* Name tokens: the ones without a slash, which [^/]+ can match
NameTokens == {"news", "abc"}

\* re.search(r"reddit\.com/r/([^/]+)/?", lower): Optional group(1)
SubredditOf(lower) ==
    LET hits == {i \in 1..(Len(lower) - 2) :
                    /\ lower[i] = "reddit.com"
                    /\ lower[i + 1] = "/r/"
                    /\ lower[i + 2] \in NameTokens}
    IN IF hits = {} THEN None
       ELSE Some(lower[(CHOOSE i \in hits : \A j \in hits : i <= j) + 2])

----------------------------------------------------------------------------
(* HTTP.  A response is [status, ...]; status "ok" is a 2xx answer,        *)
(* "timeout" and "http_error" make requests / raise_for_status raise.      *)
(* A GET log entry is [url, ok].                                           *)

Get(url, resp) == [url |-> url, ok |-> resp.status = "ok"]

\* scraper.fetch_html
fetch_html(resp) ==
    IF resp.status # "ok" THEN Raise(resp.status) ELSE [exc |-> FALSE, html |-> resp.doc]

\* fetch_html followed by extract_text, as every caller chains them:
\* the Optional text, or the exception of either step
FetchAndExtract(resp) ==
    LET Then(h) == IF h.exc THEN h ELSE extract_text(h.html)
    IN Then(fetch_html(resp))

----------------------------------------------------------------------------
(* Reddit.  A post (the "data" of a listing child) has                      *)
(* created: [kind, t] with kind "num", "absent" (the key is missing) or    *)
(* "null" (the key holds no number).                                       *)
(* A JSON body is [kind |-> "dict", children], [kind |-> "list", items]    *)
(* with items a sequence of such dicts or of "str" bodies, or              *)
(* [kind |-> "str"]; the response field json is "bad" when resp.json()     *)
(* raises.                                                                  *)

\* Mutant of the creation time: a post without the key gets no published
CreatedOf_absentNull(post) ==
    CASE post.created.kind = "num" -> [exc |-> FALSE, iso |-> isoformat(post.created.t)]
      [] post.created.kind = "absent" -> [exc |-> FALSE, iso |-> None]
      [] OTHER -> Raise("TypeError")

\* datetime.fromtimestamp(d.get("created_utc", 0), tz=utc).isoformat()
CreatedOf(post) ==
    CASE post.created.kind = "num" -> [exc |-> FALSE, iso |-> isoformat(post.created.t)]
      [] post.created.kind = "absent" -> [exc |-> FALSE, iso |-> isoformat(0)]
      [] OTHER -> Raise("TypeError")

\* The item dict of fetch_reddit_subreddit / fetch_reddit_post
RedditItem(post, source, nowDt) ==
    [id |-> post.id,
     title |-> Some(post.title),
     link |-> IF post.permalink # None /\ post.permalink[1] # <<>>
              THEN Some(<<"https://reddit.com">> \o post.permalink[1]) ELSE post.url,
     published |-> CreatedOf(post).iso,
     summary |-> Some(post.selftext),
     content |-> post.selftext,
     authors |-> IF post.author # None /\ post.author[1] # "" THEN <<post.author[1]>> ELSE <<>>,
     tags |-> IF post.flair # None /\ post.flair[1] # "" THEN <<post.flair[1]>> ELSE <<>>,
     source |-> source,
     fetched_at |-> isoformat(nowDt)]

\* Mutant of the linked-page test: the page is fetched for every post with a url
NeedsLinkedPage_always(item, post) == post.url # None /\ post.url[1] # <<>>

\* if not item["content"] and d.get("url"):
NeedsLinkedPage(item, post) == item.content = <<>> /\ post.url # None /\ post.url[1] # <<>>

\* The try block fetching the linked page (lines 59-67 and 128-136)
ApplyLinkedPage(item, page) ==
    LET Then(r) ==
            IF r.exc \/ r.text = None THEN item ELSE [item EXCEPT !.content = r.text[1]]
    IN Then(FetchAndExtract(page))

\* One listing child turned into an item
RedditChild(post, source, nowDt, page) ==
    LET Then(item) ==
            [exc |-> FALSE,
             item |-> IF NeedsLinkedPage(item, post)
                      THEN ApplyLinkedPage(item, page) ELSE item,
             gets |-> IF NeedsLinkedPage(item, post)
                      THEN <<Get(post.url[1], page)>> ELSE <<>>]
    IN IF CreatedOf(post).exc THEN CreatedOf(post)
       ELSE Then(RedditItem(post, source, nowDt))

\* social.fetch_reddit_subreddit.  pages[i] answers the GET of child i's url.
fetch_reddit_subreddit(subreddit, resp, pages, nowDt) ==
    LET url == <<"https://www.", "reddit.com", "/r/", subreddit, "/new.json?limit=25">>
        g == <<Get(url, resp)>>
    IN IF resp.status # "ok" THEN [exc |-> TRUE, kind |-> resp.status, gets |-> g]
       ELSE IF resp.json = "bad" THEN [exc |-> TRUE, kind |-> "JSONDecodeError", gets |-> g]
       ELSE IF resp.body.kind # "dict" THEN [exc |-> TRUE, kind |-> "AttributeError", gets |-> g]
       ELSE LET ch == resp.body.children
                Add(prev, c) ==
                  IF c.exc THEN [exc |-> TRUE, kind |-> c.kind, out |-> <<>>,
                                 gets |-> prev.gets]
                  ELSE [exc |-> FALSE, kind |-> "",
                        out |-> Append(prev.out, c.item),
                        gets |-> prev.gets \o c.gets]
                Step(prev, i) ==
                  IF prev.exc THEN prev
                  ELSE Add(prev, RedditChild(ch[i], <<"reddit:", subreddit>>, nowDt,
                                             pages[i]))
                F[i \in 0..Len(ch)] ==
                  IF i = 0 THEN [exc |-> FALSE, kind |-> "", out |-> <<>>, gets |-> g]
                  ELSE Step(F[i - 1], i)
            IN F[Len(ch)]

\* social.fetch_reddit_post lines 82-85
PostJsonUrl(post_url) ==
    IF EndsWith(post_url, ".json") THEN post_url
    ELSE IF EndsWith(post_url, "/")
         THEN Append(SubSeq(post_url, 1, Len(post_url) - 1), ".json")
    ELSE Append(post_url, ".json")

\* social.fetch_reddit_post lines 98-110: Optional post, or the exception
PostDataOf(body) ==
    IF body.kind = "list" /\ body.items # <<>>
    THEN IF body.items[1].kind # "dict" THEN Raise("AttributeError")
         ELSE [exc |-> FALSE,
               post |-> IF body.items[1].children # <<>>
                        THEN Some(body.items[1].children[1]) ELSE None]
    ELSE IF body.kind = "dict"
    THEN [exc |-> FALSE,
          post |-> IF body.children # <<>> THEN Some(body.children[1]) ELSE None]
    ELSE [exc |-> FALSE, post |-> None]

\* except Exception: return [] around the GET and resp.json() (lines 92-93)
PostFetchCatches(kind) == TRUE

\* except Exception: return [] around the normalisation (lines 139-140)
PostParseCatches(kind) == TRUE

\* social.fetch_reddit_post: the list returned, or the exception let out
fetch_reddit_post(post_url, resp, page, nowDt) ==
    LET g == <<Get(PostJsonUrl(post_url), resp)>>
        Empty == [exc |-> FALSE, kind |-> "", out |-> <<>>, gets |-> g]
        Handle(kind, caught) ==
            IF caught THEN Empty ELSE [Empty EXCEPT !.exc = TRUE, !.kind = kind]
        Item(c) ==
            IF c.exc THEN Handle(c.kind, PostParseCatches(c.kind))
            ELSE [Empty EXCEPT !.out = <<c.item>>, !.gets = g \o c.gets]
        Post(pd) ==
            IF pd.exc THEN Handle(pd.kind, PostParseCatches(pd.kind))
            ELSE IF pd.post = None THEN Empty
            ELSE Item(RedditChild(pd.post[1], <<"reddit:", "post">>, nowDt, page))
    IN IF resp.status # "ok" THEN Handle(resp.status, PostFetchCatches(resp.status))
       ELSE IF resp.json = "bad"
       THEN Handle("JSONDecodeError", PostFetchCatches("JSONDecodeError"))
       ELSE Post(PostDataOf(resp.body))

----------------------------------------------------------------------------
(* X / Twitter *)

TitleChars == 120

\* Character length of a token, and of a text with its one-character separators
TokLen(tok) == IF tok = "w100" THEN 100 ELSE 1

RECURSIVE TextLen(_)
TextLen(text) ==
    IF text = <<>> THEN 0
    ELSE TokLen(Head(text)) + (IF Len(text) > 1 THEN 1 + TextLen(Tail(text)) ELSE 0)

\* text[:n]: whole tokens while they fit; a token cut short is marked with "~"
RECURSIVE Truncate(_, _)
Truncate(text, n) ==
    IF text = <<>> \/ n <= 0 THEN <<>>
    ELSE IF TokLen(Head(text)) > n THEN <<Head(text) \o "~">>
    ELSE <<Head(text)>> \o Truncate(Tail(text), n - TokLen(Head(text)) - 1)

\* social.fetch_x_oembed
fetch_x_oembed(tweet_url, resp, nowDt) ==
    LET g == <<Get(<<"https://publish.", "twitter.com", "/oembed?url=">> \o tweet_url, resp)>> IN
    IF resp.status # "ok" THEN [exc |-> TRUE, kind |-> resp.status, gets |-> g]
    ELSE IF resp.json = "bad" THEN [exc |-> TRUE, kind |-> "JSONDecodeError", gets |-> g]
    ELSE IF resp.body.kind # "dict" THEN [exc |-> TRUE, kind |-> "AttributeError", gets |-> g]
    ELSE LET Result(text) ==
             [exc |-> FALSE, gets |-> g,
              item |-> [id |-> None,
                        title |-> Some(Truncate(text, TitleChars)),
                        link |-> Some(tweet_url),
                        published |-> None,
                        summary |-> Some(text),
                        content |-> text,
                        authors |-> IF resp.body.author_name # None /\ resp.body.author_name[1] # ""
                                    THEN <<resp.body.author_name[1]>>
                                    ELSE IF resp.body.author_url # None /\ resp.body.author_url[1] # ""
                                    THEN <<resp.body.author_url[1]>> ELSE <<>>,
                        tags |-> <<>>,
                        source |-> <<"x">>,
                        fetched_at |-> isoformat(nowDt)]]
         IN Result(GetText(resp.body.html))

\* Mutant of the wrapper's handler: only transport errors are caught
StatusCatches_transportOnly(kind) == kind \in {"timeout", "http_error"}

\* except Exception: return None (lines 191-192)
StatusCatches(kind) == TRUE

\* social.fetch_x_status: the Optional item returned, or the exception let out
fetch_x_status(tweet_url, resp, nowDt) ==
    LET Then(r) ==
            IF ~r.exc THEN [exc |-> FALSE, kind |-> "", item |-> Some(r.item), gets |-> r.gets]
            ELSE IF StatusCatches(r.kind)
            THEN [exc |-> FALSE, kind |-> "", item |-> None, gets |-> r.gets]
            ELSE [exc |-> TRUE, kind |-> r.kind, item |-> None, gets |-> r.gets]
    IN Then(fetch_x_oembed(tweet_url, resp, nowDt))

----------------------------------------------------------------------------
(* Feeds.  A response to a feed GET is                                      *)
(* [status, ctype, feed |-> [title, entries], links, anchors]:             *)
(* the Content-Type header, what feedparser makes of the body, and the     *)
(* <link rel=...> and <a href=...> elements BeautifulSoup finds in it.     *)

\* pat in tok.lower(), for the substrings the code looks for
TokHas(tok, pat) ==
    CASE tok \in {"application/rss+xml", "Application/RSS+XML"} -> pat \in {"rss", "xml"}
      [] tok \in {"/rss", "/RSS"} -> pat = "rss"
      [] tok \in {"application/atom+xml"} -> pat \in {"atom", "xml"}
      [] tok \in {"text/xml", "TEXT/XML"} -> pat = "xml"
      [] tok \in {"/feed.xml", "feed.xml"} -> pat \in {"feed", "xml"}
      [] tok \in {"alternate"} -> pat = "alternate"
      [] OTHER -> FALSE

\* pat in tok, the case kept
InStr(tok, pat) ==
    tok \notin {"Application/RSS+XML", "/RSS", "TEXT/XML"} /\ TokHas(tok, pat)

HasAny(toks, pats) == \E i \in 1..Len(toks) : \E pat \in pats : TokHas(toks[i], pat)

\* Mutant of the resolution: the reference is appended to the base
urljoin_concat(base, href) == base \o href

\* urllib.parse.urljoin(base, href), base being <<scheme, host, path>>
urljoin(base, href) ==
    IF href[1] \in {"https://", "http://"} THEN href
    ELSE IF href[1] \in {"/feed.xml", "/rss", "/RSS", "/about"} THEN <<base[1], base[2]>> \o href
    ELSE <<base[1], base[2], "/">> \o href

\* rss._resolve_feed_url_from_html: Optional URL
_resolve_feed_url_from_html(base_url, page) ==
    LET linkOk(l) == /\ l.rel # <<>>
                     /\ \E i \in 1..Len(l.rel) : InStr(l.rel[i], "alternate")
                     /\ HasAny(<<l.type>>, {"rss", "xml", "atom"})
                     /\ l.href # None /\ l.href[1] # <<>>
        First(ls, as) ==
            IF ls # <<>> THEN Some(urljoin(base_url, ls[1].href[1]))
            ELSE IF as # <<>> THEN Some(urljoin(base_url, as[1]))
            ELSE None
    IN First(SelectSeq(page.links, linkOk),
             SelectSeq(page.anchors, LAMBDA h : HasAny(h, {"rss", "feed", "atom"})))

\* Mutant of the Content-Type test: no type is taken for a feed
LooksLikeFeed_never(ctype) == FALSE

\* "xml" in content_type or "rss" in content_type or "atom" in content_type
LooksLikeFeed(ctype) == \E pat \in {"xml", "rss", "atom"} : InStr(ctype, pat)

\* Mutant of the transport check: no failure is noticed
GetRaises_never(resp) == FALSE

\* requests.get(...) timing out or resp.raise_for_status() raising
GetRaises(resp) == resp.status # "ok"

\* rss.fetch_feed.  resp answers the GET of url, resp2 that of a discovered feed.
fetch_feed(url, resp, resp2) ==
    LET g1 == <<Get(url, resp)>>
        Second(g2) ==
            IF GetRaises(resp2) THEN [exc |-> TRUE, kind |-> resp2.status, gets |-> g2]
            ELSE [exc |-> FALSE, feed |-> resp2.feed, gets |-> g2]
        Resolved(feed_url) ==
            IF feed_url # None THEN Second(g1 \o <<Get(feed_url[1], resp2)>>)
            ELSE [exc |-> FALSE, feed |-> resp.feed, gets |-> g1]
    IN IF GetRaises(resp) THEN [exc |-> TRUE, kind |-> resp.status, gets |-> g1]
       ELSE IF resp.feed.entries # <<>>
       THEN [exc |-> FALSE, feed |-> resp.feed, gets |-> g1]
       ELSE IF LooksLikeFeed(resp.ctype)
       THEN [exc |-> FALSE, feed |-> resp.feed, gets |-> g1]
       ELSE Resolved(_resolve_feed_url_from_html(url, resp))

\* Mutant of the recency test: a record exactly at the cutoff is dropped
IsRecent_strict(rec, cutoff) == fromisoformat(rec.published) > cutoff

\* datetime.fromisoformat(e["published"]) >= cutoff
IsRecent(rec, cutoff) == fromisoformat(rec.published) >= cutoff

\* rss.fetch_recent.  arts[i] answers the article GET of entry i.
fetch_recent(url, hrs, resp, resp2, arts, nowDt) ==
    LET cutoff == nowDt - hrs
        ArticleGets(trace) ==
            Flatten([k \in 1..Len(trace) |->
                IF trace[k].get
                THEN <<Get(trace[k].before.link[1], arts[trace[k].i])>>
                ELSE <<>>])
        Filter(f, n) ==
            [exc |-> FALSE, gets |-> f.gets \o ArticleGets(n.trace),
             normalized |-> n.out,
             entries |-> Len(f.feed.entries),
             out |-> SelectSeq(n.out, LAMBDA rec : IsRecent(rec, cutoff))]
        Parse(f) ==
            IF f.exc THEN f
            ELSE Filter(f, parse_entries(f.feed.entries, f.feed.title, nowDt, arts))
    IN Parse(fetch_feed(url, resp, resp2))

----------------------------------------------------------------------------
(* The orchestrator: one iteration of the loop of collect_from_urls.       *)
(* env holds what the network answers while this URL is processed:         *)
(* resp / resp2: the first and second listing, feed or oEmbed GET;         *)
(* pages / pages2: the linked-page GETs of the listing children;           *)
(* arts: the article GETs of the feed entries; page: the raw-page GET.     *)

IsReddit(lower) ==
    Contains(lower, "reddit.com") \/ Contains(lower, "redd.it") \/ StartsWith(lower, "r/")

IsTwitter(lower) == Contains(lower, "twitter.com") \/ Contains(lower, "x.com")

\* Mutant of the classification: the Twitter rule is tried first
Classify_twitterFirst(lower) ==
    IF IsTwitter(lower) THEN "twitter"
    ELSE IF IsReddit(lower) THEN "reddit"
    ELSE "generic"

\* The if / elif / else of collect_from_urls (lines 227, 247, 255)
Classify(lower) ==
    IF IsReddit(lower) THEN "reddit"
    ELSE IF IsTwitter(lower) THEN "twitter"
    ELSE "generic"

\* What one URL's dispatch leaves behind: the fetchers called, the exception
\* that left the try body (kind, "" when none), the items list, the GETs
\* issued and, on the generic path, what the resolver and the normaliser gave
\* (resolved: "raised", "empty" or "entries").  leaf is the exception
\* fetch_reddit_post or fetch_x_status let out to the loop ("" when none).
Outcome0 ==
    [path |-> "", calls |-> <<>>, kind |-> "", leaf |-> "", items |-> <<>>, gets |-> <<>>,
     resolved |-> "", normalized |-> <<>>]

\* Lines 228-244
DispatchReddit(url, lower, env, nowDt) ==
    IF Contains(lower, "/comments/")
    THEN LET Post(r) ==
                 [Outcome0 EXCEPT !.path = "reddit", !.calls = <<"fetch_reddit_post">>,
                                  !.items = r.out, !.gets = r.gets,
                                  !.leaf = r.kind,
                                  !.kind = IF r.exc /\ r.kind # "NameError"
                                           THEN r.kind ELSE @]
         IN Post(fetch_reddit_post(url, env.resp, env.pages[1], nowDt))
    ELSE LET c1 == <<"fetch_reddit_subreddit">>
             Retry(r, r2) ==
                 [Outcome0 EXCEPT !.path = "reddit", !.calls = c1 \o c1,
                                  !.gets = r.gets \o r2.gets,
                                  !.kind = IF r2.exc THEN r2.kind ELSE @,
                                  !.items = IF r2.exc THEN @ ELSE r2.out]
             First(m, r) ==
                 IF ~r.exc
                 THEN [Outcome0 EXCEPT !.path = "reddit", !.calls = c1,
                                       !.items = r.out, !.gets = r.gets]
                 ELSE IF r.kind # "TypeError"
                 THEN [Outcome0 EXCEPT !.path = "reddit", !.calls = c1,
                                       !.kind = r.kind, !.gets = r.gets]
                 ELSE Retry(r, fetch_reddit_subreddit(m[1], env.resp2, env.pages2, nowDt))
             Matched(m) ==
                 IF m = None THEN [Outcome0 EXCEPT !.path = "reddit"]
                 ELSE First(m, fetch_reddit_subreddit(m[1], env.resp, env.pages, nowDt))
         IN Matched(SubredditOf(lower))

\* Lines 247-253
DispatchTwitter(url, env, nowDt) ==
    LET Then(r) ==
            [Outcome0 EXCEPT !.path = "twitter", !.calls = <<"fetch_x_status">>,
                             !.items = r.item, !.gets = r.gets, !.leaf = r.kind]
    IN Then(fetch_x_status(url, env.resp, nowDt))

\* The record of the raw-page fallback (lines 265-277)
FallbackRecord(url, text, nowDt) ==
    [id |-> Some(url), title |-> None, link |-> Some(url),
     published |-> isoformat(nowDt), summary |-> None, content |-> text,
     authors |-> <<>>, tags |-> <<>>, source |-> url, fetched_at |-> isoformat(nowDt)]

\* Lines 255-279
DispatchGeneric(url, hrs, env, nowDt) ==
    LET Extracted(o3, t) ==
            IF t.exc \/ t.text = None THEN o3
            ELSE [o3 EXCEPT !.items = <<FallbackRecord(url, t.text[1], nowDt)>>]
        Fetched(o, h) ==
            IF h.exc THEN o
            ELSE Extracted([o EXCEPT !.calls = @ \o <<"extract_text">>],
                           extract_text(h.html))
        Then(r) ==
            IF ~r.exc
            THEN [Outcome0 EXCEPT !.path = "generic", !.calls = <<"fetch_recent">>,
                                  !.items = r.out, !.gets = r.gets,
                                  !.resolved = IF r.entries = 0 THEN "empty" ELSE "entries",
                                  !.normalized = r.normalized]
            ELSE Fetched([Outcome0 EXCEPT !.path = "generic", !.resolved = "raised",
                                          !.calls = <<"fetch_recent", "fetch_html">>,
                                          !.gets = r.gets \o <<Get(url, env.page)>>],
                         fetch_html(env.page))
    IN Then(fetch_recent(url, hrs, env.resp, env.resp2, env.arts, nowDt))

\* The try body of the loop (lines 223-279)
Dispatch(url, hrs, env, nowDt) ==
    LET lower == LowerUrl(url)
        path == Classify(lower)
    IN CASE path = "reddit" -> DispatchReddit(url, lower, env, nowDt)
         [] path = "twitter" -> DispatchTwitter(url, env, nowDt)
         [] OTHER -> DispatchGeneric(url, hrs, env, nowDt)

\* Mutant of the loop's handler: only transport errors are caught
OuterCatches_transportOnly(kind) == kind \in {"timeout", "http_error"}

\* except Exception as e: (line 283)
OuterCatches(kind) == TRUE

\* Mutant of the merge: the new items are put in front
Extend_prepend(acc, items) == items \o acc

\* combined.extend(items or [])
Extend(acc, items) == acc \o items

----------------------------------------------------------------------------
(* The URLs and the network answers collect_from_urls is run on *)

GenericUrl == <<"https://", "site", "/page">>
SubredditUrl == <<"https://", "REDDIT.COM", "/r/", "News", "/">>
PostUrl == <<"https://", "reddit.com", "/r/", "news", "/comments/", "abc", "/">>
TweetUrl == <<"https://", "netfli", "X.com", "/u/status/1">>
BothUrl == <<"https://", "twitter.com", "/share?u=", "reddit.com", "/r/", "news">>
BareUrl == <<"r/", "news">>
ShortUrl == <<"https://", "redd.it", "/abc">>

URLS == {GenericUrl, SubredditUrl, PostUrl, TweetUrl, BothUrl, BareUrl, ShortUrl}

PostSelf ==
    [id |-> Some(<<"p1">>), title |-> <<"Post">>,
     permalink |-> Some(<<"/r/", "news", "/comments/", "p1">>),
     url |-> Some(<<"https://", "reddit.com", "/r/", "news", "/comments/", "p1">>),
     selftext |-> <<"self">>, author |-> Some("u1"), flair |-> Some("f"),
     created |-> [kind |-> "num", t |-> 1]]

PostLink ==
    [id |-> Some(<<"p2">>), title |-> <<>>, permalink |-> None,
     url |-> Some(<<"https://", "site", "/a">>),
     selftext |-> <<>>, author |-> None, flair |-> None,
     created |-> [kind |-> "absent", t |-> 0]]

PostNull == [PostSelf EXCEPT !.created = [kind |-> "null", t |-> 0]]

Listing(children) == [kind |-> "dict", children |-> children]
JsonList(items) == [kind |-> "list", items |-> items]
JsonResp(body) == [Resp0 EXCEPT !.body = body]
BadJson == [Resp0 EXCEPT !.json = "bad"]

TextPage == OkResp([EmptyDoc EXCEPT !.article = Some(<<"a">>)])

Env0 ==
    [resp |-> Resp0, resp2 |-> Resp0, pages |-> <<Resp0, Resp0>>,
     pages2 |-> <<Resp0, Resp0>>, arts |-> <<Resp0, Resp0, Resp0, Resp0>>, page |-> Resp0]

SubredditEnvs ==
    {[Env0 EXCEPT !.resp = r] :
        r \in {FailResp("timeout"), BadJson, JsonResp(JsonList(<<Listing(<<PostSelf>>)>>)),
               JsonResp(Listing(<<>>))}}
    \cup {[Env0 EXCEPT !.resp = JsonResp(Listing(<<PostSelf, PostLink>>)),
                       !.pages = <<pg, pg>>] : pg \in {FailResp("timeout"), TextPage}}
    \cup {[Env0 EXCEPT !.resp = JsonResp(Listing(<<PostSelf, PostNull>>)), !.resp2 = r2] :
            r2 \in {FailResp("timeout"), JsonResp(Listing(<<PostSelf>>))}}

PostEnvs ==
    {[Env0 EXCEPT !.resp = r] :
        r \in {FailResp("timeout"), FailResp("http_error"), BadJson,
               JsonResp(JsonList(<<Listing(<<PostSelf>>), Listing(<<>>)>>)),
               JsonResp(Listing(<<PostSelf>>)),
               JsonResp(JsonList(<<>>)),
               JsonResp(JsonList(<<[kind |-> "str"]>>)),
               JsonResp([kind |-> "str"]),
               JsonResp(JsonList(<<Listing(<<PostNull>>)>>))}}
    \cup {[Env0 EXCEPT !.resp = JsonResp(JsonList(<<Listing(<<PostLink>>)>>)),
                       !.pages = <<pg, Resp0>>] : pg \in {FailResp("timeout"), TextPage}}

OEmbed(html, name, aurl) ==
    [kind |-> "dict", html |-> html, author_name |-> name, author_url |-> aurl]

TwitterEnvs ==
    {[Env0 EXCEPT !.resp = r] :
        r \in {FailResp("timeout"), FailResp("http_error"), BadJson,
               JsonResp(JsonList(<<>>)),
               JsonResp(OEmbed(<<"<p>", "hi", "</p>">>, Some("n"), Some("u"))),
               JsonResp(OEmbed(<<"<p>", "w100", "w100", "</p>">>, None, Some("u"))),
               JsonResp(OEmbed(<<>>, None, None))}}

FeedEntry(st) == [BaseEntry EXCEPT !.published_parsed = Some(st)]

TimesFeed ==
    [title |-> <<"Feed">>,
     entries |-> <<FeedEntry(<<1, 1>>), FeedEntry(<<1, 0>>), FeedEntry(<<0, 2>>),
                   FeedEntry(<<0, 1>>)>>]

MixedFeed ==
    [title |-> <<>>,
     entries |-> <<[BaseEntry EXCEPT !.published_parsed = None],
                   [BaseEntry EXCEPT !.content = <<>>,
                                     !.authors = <<Some("A"), Some("A")>>]>>]

OneFeed == [title |-> <<"Feed">>, entries |-> <<FeedEntry(<<1, 0>>)>>]
NoFeed == [title |-> <<>>, entries |-> <<>>]

FeedResp(ctype, feed) == [Resp0 EXCEPT !.ctype = ctype, !.feed = feed]

FeedLink == [rel |-> <<"alternate">>, type |-> "application/rss+xml",
             href |-> Some(<<"/feed.xml">>)]
StyleLink == [rel |-> <<"stylesheet">>, type |-> "text/css", href |-> Some(<<"/about">>)]

LinkPage == [Resp0 EXCEPT !.links = <<StyleLink, FeedLink>>, !.anchors = <<<<"/rss">>>>]
AnchorPage == [Resp0 EXCEPT !.links = <<StyleLink>>, !.anchors = <<<<"/about">>, <<"/RSS">>>>]
PlainPage == [TextPage EXCEPT !.links = <<StyleLink>>, !.anchors = <<<<"/about">>>>]

RawPages ==
    {FailResp("timeout"), TextPage, OkResp(EmptyDoc), OkResp([EmptyDoc EXCEPT !.parser = "none"])}

GenericEnvs ==
    {[Env0 EXCEPT !.resp = FailResp("timeout"), !.page = pg] : pg \in RawPages}
    \cup {[Env0 EXCEPT !.resp = r] :
            r \in {FeedResp("application/rss+xml", TimesFeed),
                   FeedResp("text/html", OneFeed),
                   FeedResp("text/xml", NoFeed),
                   PlainPage}}
    \cup {[Env0 EXCEPT !.resp = FeedResp("application/atom+xml", MixedFeed),
                       !.arts = <<Resp0, a, Resp0, Resp0>>] :
            a \in {FailResp("timeout"), TextPage,
                   OkResp([EmptyDoc EXCEPT !.metaAuthor = Some("J")])}}
    \cup {[Env0 EXCEPT !.resp = LinkPage, !.resp2 = r2] :
            r2 \in {FeedResp("text/xml", OneFeed), FeedResp("text/html", NoFeed)}}
    \cup {[Env0 EXCEPT !.resp = AnchorPage, !.resp2 = FeedResp("text/xml", OneFeed)]}
    \cup {[Env0 EXCEPT !.resp = AnchorPage, !.resp2 = FailResp("http_error"), !.page = pg] :
            pg \in {FailResp("http_error"), TextPage}}

EnvsFor(url) ==
    LET lower == LowerUrl(url) IN
    CASE Classify(lower) = "generic" -> GenericEnvs
      [] Classify(lower) = "twitter" -> TwitterEnvs
      [] Contains(lower, "/comments/") -> PostEnvs
      [] SubredditOf(lower) # None -> SubredditEnvs
      [] OTHER -> {Env0}

----------------------------------------------------------------------------
(* Specification of collect_from_urls *)

NotRun == [run |-> FALSE]

ExtractIdle == xDoc = EmptyDoc /\ xScraper = NotRun /\ xRss = NotRun
ParseIdle == pEntries = <<>> /\ pNet = <<>> /\ pOut = NotRun
CollectIdle ==
    /\ urls = <<>> /\ hours = 0 /\ now = 0 /\ idx = 1
    /\ combined = <<>> /\ hist = <<>> /\ pc = "idle"

CliIdle ==
    /\ cArgs = <<>> /\ cTty = FALSE /\ cInput = <<>> /\ cUrls = <<>> /\ cIdx = 1
    /\ cCombined = <<>> /\ cLog = <<>> /\ cWritten = None /\ cExit = None /\ cPc = "idle"
FeedIdle ==
    /\ fResp = Resp0 /\ fResp2 = Resp0
    /\ fResolve = NotRun /\ fFeed = NotRun /\ fRecent = NotRun

Init ==
    /\ urls \in SeqsUpTo(URLS, MaxUrls)
    /\ hours \in {2, 24}
    /\ now = 26
    /\ idx = 1
    /\ combined = <<>>
    /\ hist = <<>>
    /\ pc = "loop"
    /\ ExtractIdle /\ ParseIdle /\ CliIdle /\ FeedIdle

\* One iteration of the for loop (lines 220-284)
ProcessUrl ==
    /\ pc = "loop"
    /\ idx <= Len(urls)
    /\ \E env \in EnvsFor(urls[idx]) :
       \E o \in {Dispatch(urls[idx], hours, env, now)} :
         IF o.kind # "" /\ ~OuterCatches(o.kind)
         THEN /\ pc' = "escaped"
              /\ UNCHANGED <<idx, combined, hist>>
         ELSE /\ combined' = IF o.kind # "" THEN combined ELSE Extend(combined, o.items)
              /\ hist' = Append(hist, [url |-> urls[idx], env |-> env, o |-> o,
                                       before |-> Len(combined),
                                       after |-> Len(combined')])
              /\ idx' = idx + 1
              /\ pc' = pc
    /\ UNCHANGED <<urls, hours, now>>
    /\ UNCHANGED <<extractVars, parseVars, cliVars, feedVars>>

\* return combined (line 286)
Return ==
    /\ pc = "loop"
    /\ idx > Len(urls)
    /\ pc' = "done"
    /\ UNCHANGED <<urls, hours, now, idx, combined, hist>>
    /\ UNCHANGED <<extractVars, parseVars, cliVars, feedVars>>

Next == ProcessUrl \/ Return

Spec == Init /\ [][Next]_vars

----------------------------------------------------------------------------
(* Specification of parse_entries *)

\* Whether entry e reaches the article GET
Fetches(e) ==
    /\ EntryTimestamp(e) # None
    /\ NeedsArticle(EntryRecord(e, <<>>, 0))

InitParse ==
    /\ pEntries \in SeqsUpTo(EntrySet, MaxEntries)
    /\ pNet = <<>>
    /\ pOut = NotRun
    /\ ExtractIdle /\ CollectIdle /\ CliIdle /\ FeedIdle

\* The answers the article GETs of a run may get: any for an entry that
\* reaches its GET, a fixed one for an entry that issues none
RECURSIVE NetsFor(_)
NetsFor(entries) ==
    IF entries = <<>> THEN {<<>>}
    ELSE {<<r>> \o rest :
            r \in IF Fetches(Head(entries)) THEN ArticleResps ELSE {FailResp("timeout")},
            rest \in NetsFor(Tail(entries))}

RunParseEntries ==
    /\ ~pOut.run
    /\ \E net \in NetsFor(pEntries) :
         /\ pNet' = net
         /\ pOut' = [run |-> TRUE,
                     res |-> parse_entries(pEntries, <<"Feed">>, 26, net)]
    /\ UNCHANGED pEntries
    /\ UNCHANGED <<extractVars, collectVars, cliVars, feedVars>>

NextParse == RunParseEntries

SpecParse == InitParse /\ [][NextParse]_vars

----------------------------------------------------------------------------
(* Specification of the extractors *)

InitExtract ==
    /\ xDoc \in TextDocs \cup AuthorDocs
    /\ xScraper = NotRun
    /\ xRss = NotRun
    /\ ParseIdle /\ CollectIdle /\ CliIdle /\ FeedIdle

RunExtractText ==
    /\ ~xScraper.run
    /\ xScraper' = [run |-> TRUE, res |-> extract_text(xDoc)]
    /\ UNCHANGED <<xDoc, xRss>>
    /\ UNCHANGED <<parseVars, collectVars, cliVars, feedVars>>

RunFetchArticleContent ==
    /\ ~xRss.run
    /\ \E status \in {"ok", "timeout", "http_error"} :
         xRss' = [run |-> TRUE,
                  res |-> _fetch_article_content([OkResp(xDoc) EXCEPT !.status = status])]
    /\ UNCHANGED <<xDoc, xScraper>>
    /\ UNCHANGED <<parseVars, collectVars, cliVars, feedVars>>

NextExtract == RunExtractText \/ RunFetchArticleContent

SpecExtract == InitExtract /\ [][NextExtract]_vars

----------------------------------------------------------------------------
(* Specification of the command line scripts/fetch_rss.py.  A line is a    *)
(* sequence of tokens, " " being white space; a --url value is taken as    *)
(* given.  The output path is taken to be writable.                        *)

Reverse(l) == [i \in 1..Len(l) |-> l[Len(l) + 1 - i]]

RECURSIVE StripLeft(_)
StripLeft(l) == IF l # <<>> /\ Head(l) = " " THEN StripLeft(Tail(l)) ELSE l

\* line.strip()
StripLine(l) == Reverse(StripLeft(Reverse(StripLeft(l))))

\* [line.strip() for line in data.splitlines() if line.strip()]
PipedUrls(lines) ==
    SelectSeq([i \in 1..Len(lines) |-> StripLine(lines[i])], LAMBDA l : l # <<>>)

\* The input() loop: it ends at EOFError or at the first empty line
RECURSIVE TypedUrls(_)
TypedUrls(lines) ==
    IF lines = <<>> THEN <<>>
    ELSE IF StripLine(Head(lines)) = <<>> THEN <<>>
    ELSE <<StripLine(Head(lines))>> \o TypedUrls(Tail(lines))

\* Mutant of the loop's handler: nothing is caught
CliCatches_none(kind) == FALSE

\* except Exception as e: (line 54)
CliCatches(kind) == TRUE

UrlA == <<"https://", "a", "/feed">>
UrlB == <<"https://", "b", "/feed">>
ArgUrls == {UrlA, <<>>}
InputLines == {<<>>, <<" ">>, UrlB, <<" ">> \o UrlA \o <<" ">>}

\* What the feed GET of a URL may be answered with; the empty string is no
\* URL requests accepts
CliResps(url) ==
    IF url = <<>> THEN {FailResp("MissingSchema")}
    ELSE {FailResp("timeout"), FailResp("http_error"),
          [Resp0 EXCEPT !.ctype = "application/rss+xml",
                        !.feed = [title |-> <<"Feed">>,
                                  entries |-> <<[BaseEntry EXCEPT
                                                   !.published_parsed = Some(<<1, 1>>)]>>]],
          [Resp0 EXCEPT !.ctype = "text/xml"]}

InitCli ==
    /\ cArgs \in SeqsUpTo(ArgUrls, MaxArgs)
    /\ cTty \in BOOLEAN
    /\ cInput \in SeqsUpTo(InputLines, MaxLines)
    /\ cUrls = <<>>
    /\ cIdx = 1
    /\ cCombined = <<>>
    /\ cLog = <<>>
    /\ cWritten = None
    /\ cExit = None
    /\ cPc = "start"
    /\ ExtractIdle /\ ParseIdle /\ CollectIdle /\ FeedIdle

\* Lines 24-42
CliReadUrls ==
    /\ cPc = "start"
    /\ cUrls' = IF cArgs # <<>> THEN cArgs
                ELSE IF ~cTty THEN PipedUrls(cInput)
                ELSE TypedUrls(cInput)
    /\ cPc' = "loop"
    /\ UNCHANGED <<cArgs, cTty, cInput, cIdx, cCombined, cLog, cWritten, cExit>>
    /\ UNCHANGED <<extractVars, parseVars, collectVars, feedVars>>

\* Lines 44-46
CliNoUrls ==
    /\ cPc = "loop"
    /\ cUrls = <<>>
    /\ cExit' = Some(2)
    /\ cPc' = "exit"
    /\ UNCHANGED <<cArgs, cTty, cInput, cUrls, cIdx, cCombined, cLog, cWritten>>
    /\ UNCHANGED <<extractVars, parseVars, collectVars, feedVars>>

\* One iteration of the loop of lines 49-55; an exception the handler does
\* not catch ends the process with status 1
CliFetch ==
    /\ cPc = "loop"
    /\ cUrls # <<>>
    /\ cIdx <= Len(cUrls)
    /\ \E resp \in CliResps(cUrls[cIdx]) :
       \E r \in {fetch_recent(cUrls[cIdx], 24, resp, Resp0, <<Resp0>>, 26)} :
         IF r.exc /\ ~CliCatches(r.kind)
         THEN /\ cExit' = Some(1)
              /\ cPc' = "exit"
              /\ UNCHANGED <<cIdx, cCombined, cLog>>
         ELSE /\ cCombined' = IF r.exc THEN cCombined ELSE cCombined \o r.out
              /\ cLog' = Append(cLog, [url |-> cUrls[cIdx], failed |-> r.exc,
                                       items |-> IF r.exc THEN <<>> ELSE r.out])
              /\ cIdx' = cIdx + 1
              /\ UNCHANGED <<cExit, cPc>>
    /\ UNCHANGED <<cArgs, cTty, cInput, cUrls, cWritten>>
    /\ UNCHANGED <<extractVars, parseVars, collectVars, feedVars>>

\* Lines 57-61
CliWrite ==
    /\ cPc = "loop"
    /\ cUrls # <<>>
    /\ cIdx > Len(cUrls)
    /\ cWritten' = Some(cCombined)
    /\ cExit' = Some(0)
    /\ cPc' = "exit"
    /\ UNCHANGED <<cArgs, cTty, cInput, cUrls, cIdx, cCombined, cLog>>
    /\ UNCHANGED <<extractVars, parseVars, collectVars, feedVars>>

NextCli == CliReadUrls \/ CliNoUrls \/ CliFetch \/ CliWrite

SpecCli == InitCli /\ [][NextCli]_vars

----------------------------------------------------------------------------
(* Specification of the feed resolver: _resolve_feed_url_from_html,        *)
(* fetch_feed and fetch_recent run on one page and one second answer       *)

BaseUrl == <<"https://", "example.com", "/page">>

UpperLink == [rel |-> <<"nofollow", "alternate">>, type |-> "Application/RSS+XML",
              href |-> Some(<<"feed.xml">>)]
NoHrefLink == [rel |-> <<"alternate">>, type |-> "application/atom+xml", href |-> None]
HtmlLink == [rel |-> <<"alternate">>, type |-> "text/html", href |-> Some(<<"/about">>)]

LinkSet == {FeedLink, StyleLink, UpperLink, NoHrefLink, HtmlLink}
AnchorSet == {<<"/about">>, <<"/RSS">>, <<"https://", "other.example", "/feed.xml">>}

DiscoveryPages ==
    {[Resp0 EXCEPT !.links = ls, !.anchors = as] :
        ls \in SeqsUpTo(LinkSet, MaxLinks), as \in SeqsUpTo(AnchorSet, MaxAnchors)}

FeedPages ==
    {FailResp("timeout"), FailResp("http_error"),
     [FeedResp("text/html", OneFeed) EXCEPT !.links = <<FeedLink>>],
     [FeedResp("text/xml", NoFeed) EXCEPT !.links = <<FeedLink>>],
     [FeedResp("TEXT/XML", NoFeed) EXCEPT !.links = <<FeedLink>>],
     FeedResp("application/atom+xml", NoFeed),
     FeedResp("application/rss+xml", TimesFeed)}

SecondResps ==
    {FeedResp("text/xml", OneFeed), FeedResp("text/html", NoFeed),
     FailResp("timeout"), FailResp("http_error")}

InitFeed ==
    /\ fResp \in DiscoveryPages \cup FeedPages
    /\ fResp2 \in SecondResps
    /\ fResolve = NotRun
    /\ fFeed = NotRun
    /\ fRecent = NotRun
    /\ ExtractIdle /\ ParseIdle /\ CollectIdle /\ CliIdle

RunResolve ==
    /\ ~fResolve.run
    /\ fResolve' = [run |-> TRUE, res |-> _resolve_feed_url_from_html(BaseUrl, fResp)]
    /\ UNCHANGED <<fResp, fResp2, fFeed, fRecent>>
    /\ UNCHANGED <<extractVars, parseVars, collectVars, cliVars>>

RunFetchFeed ==
    /\ ~fFeed.run
    /\ fFeed' = [run |-> TRUE, res |-> fetch_feed(BaseUrl, fResp, fResp2)]
    /\ UNCHANGED <<fResp, fResp2, fResolve, fRecent>>
    /\ UNCHANGED <<extractVars, parseVars, collectVars, cliVars>>

RunFetchRecent ==
    /\ ~fRecent.run
    /\ fRecent' = [run |-> TRUE,
                   res |-> fetch_recent(BaseUrl, 24, fResp, fResp2, Env0.arts, 26)]
    /\ UNCHANGED <<fResp, fResp2, fResolve, fFeed>>
    /\ UNCHANGED <<extractVars, parseVars, collectVars, cliVars>>

NextFeed == RunResolve \/ RunFetchFeed \/ RunFetchRecent

SpecFeed == InitFeed /\ [][NextFeed]_vars

----------------------------------------------------------------------------
(* Claims about the extractors (SpecExtract) *)

\* The three candidates of a document, in the fixed order; an absent element
\* counts as an empty candidate
Candidates(doc) ==
    <<IF doc.article # None THEN doc.article[1] ELSE <<>>,
      IF doc.roleMain # None THEN doc.roleMain[1]
      ELSE IF doc.idMain # None THEN doc.idMain[1] ELSE <<>>,
      StripText(JoinParas(doc.ps))>>

FirstNonEmpty(cands) ==
    IF \A i \in 1..Len(cands) : cands[i] = <<>> THEN None
    ELSE Some(cands[CHOOSE i \in 1..Len(cands) :
                      cands[i] # <<>> /\ \A j \in 1..(i - 1) : cands[j] = <<>>])

\* C8: both extractors return the first non-empty candidate in the order
\* <article>, role/id main, joined <p> texts, and no text only when all three
\* are empty -- also when an earlier element is present but empty.
C8_FirstNonEmptyWins ==
    /\ (xScraper.run /\ ~xScraper.res.exc) =>
          xScraper.res.text = FirstNonEmpty(Candidates(xDoc))
    /\ (xRss.run /\ ~xRss.res.exc) =>
          xRss.res.text = FirstNonEmpty(Candidates(xDoc))

\* The same statement for scraper.extract_text alone
C8_ScraperFirstNonEmpty ==
    (xScraper.run /\ ~xScraper.res.exc) =>
        xScraper.res.text = FirstNonEmpty(Candidates(xDoc))

\* The stripped values of the primary author sources that are present, in
\* source order: meta name=author, the meta properties, rel=author
PrimaryAuthors(doc) ==
    LET val(o, strip) == IF o = None \/ o[1] = "" THEN <<>>
                         ELSE <<IF strip THEN StripStr(o[1]) ELSE o[1]>>
    IN val(doc.metaAuthor, TRUE) \o val(doc.metaProps[1], TRUE)
       \o val(doc.metaProps[2], TRUE) \o val(doc.metaProps[3], TRUE)
       \o val(doc.relAuthor, FALSE)

FirstIndex(seq, v) == CHOOSE i \in 1..Len(seq) : seq[i] = v /\ \A j \in 1..(i - 1) : seq[j] # v

\* C9: the extractor's authors list holds each author once, in first-occurrence
\* order over the primary sources; the selectors are consulted only when the
\* primary sources gave nothing, and then add at most one author, the text of
\* the first selector that matches with non-empty text.
C9_AuthorsDeduplicated ==
    (xRss.run /\ ~xRss.res.exc) =>
        LET a == xRss.res.authors
            prim == PrimaryAuthors(xDoc)
        IN /\ NoDup(a)
           /\ xRss.res.selUsed => prim = <<>>
           /\ prim # <<>> =>
                /\ Range(a) = Range(prim) \ {""}
                /\ \A i, j \in 1..Len(a) :
                     i < j => FirstIndex(prim, a[i]) < FirstIndex(prim, a[j])
           /\ prim = <<>> =>
                /\ Len(a) <= 1
                /\ \A k \in 1..4 :
                     (/\ xDoc.selectors[k] # None /\ xDoc.selectors[k][1] # ""
                      /\ \A m \in 1..(k - 1) :
                           xDoc.selectors[m] = None \/ xDoc.selectors[m][1] = "")
                     => a = <<xDoc.selectors[k][1]>>

\* A run on a page whose meta tag and rel=author element name the same author,
\* with a selector that matches too
C9_Witness ==
    /\ xRss.run /\ ~xRss.res.exc
    /\ xDoc.metaAuthor = Some(" J ") /\ xDoc.metaProps[2] = Some("J")
    /\ xDoc.relAuthor = Some("M") /\ xDoc.selectors[1] = Some("S")
    /\ xRss.res.authors = <<"J", "M">>

----------------------------------------------------------------------------
(* Claims about parse_entries (SpecParse) *)

HasTimestamp(e) == e.published_parsed # None \/ e.updated_parsed # None

\* The indices of the entries that carry a timestamp, in input order
Stamped(entries) ==
    LET F[i \in 0..Len(entries)] ==
          IF i = 0 THEN <<>>
          ELSE IF HasTimestamp(entries[i]) THEN Append(F[i - 1], i) ELSE F[i - 1]
    IN F[Len(entries)]

HoursOf(st) == st[1] * 24 + st[2]

\* C6: parse_entries emits one record per entry that has a published or
\* updated timestamp, in input order, and none for the others; published comes
\* from the entry's published timestamp when present, from updated otherwise,
\* and is never null.
C6_TimestampedEntriesOnly ==
    pOut.run =>
        LET out == pOut.res.out
            st == Stamped(pEntries)
        IN /\ Len(out) = Len(st)
           /\ \A k \in 1..Len(st) :
                LET e == pEntries[st[k]] IN
                /\ out[k].title = e.title
                /\ out[k].link = e.link
                /\ out[k].published # None
                /\ out[k].published =
                     <<"iso", IF e.published_parsed # None
                              THEN HoursOf(e.published_parsed[1])
                              ELSE HoursOf(e.updated_parsed[1])>>

\* A run over an entry without any timestamp followed by one whose published
\* and updated timestamps differ
C6_Witness ==
    /\ pOut.run
    /\ Len(pEntries) = 2
    /\ ~HasTimestamp(pEntries[1])
    /\ pEntries[2].published_parsed = Some(<<1, 0>>)
    /\ pEntries[2].updated_parsed = Some(<<0, 2>>)
    /\ Len(pOut.res.out) = 1
    /\ pOut.res.out[1].published = <<"iso", 24>>

\* What the article GET of the k-th emitted record ended in
ArticleResult(k) == _fetch_article_content(pNet[pOut.res.trace[k].i])

\* The article GET is issued only for an entry without content and with a link
C7_OnlyWhenNeeded ==
    \A k \in 1..Len(pOut.res.trace) :
        LET e == pEntries[pOut.res.trace[k].i] IN
        pOut.res.trace[k].get =>
            /\ (e.content = <<>> \/ GetText(e.content[1]) = <<>>)
            /\ e.link # None

\* C7 as stated: the article GET is issued only for an entry without content
\* and with a link, and when it raises or finds no text the entry is emitted
\* with empty content and every other field as the entry gave it; the other
\* entries are emitted all the same.
C7_FailureLeavesEntryUntouched ==
    pOut.run =>
        /\ Len(pOut.res.out) = Len(Stamped(pEntries))
        /\ C7_OnlyWhenNeeded
        /\ \A k \in 1..Len(pOut.res.trace) :
             (pOut.res.trace[k].get /\ (ArticleResult(k).exc \/ ArticleResult(k).text = None))
             => /\ pOut.res.out[k].content = <<>>
                /\ pOut.res.out[k] = pOut.res.trace[k].before

\* C7 amended: when the article GET raises, the record is the entry's own;
\* when it answers without text, content stays empty and only authors may
\* differ, holding the page's authors if the entry named none.
C7_Amended ==
    pOut.run =>
        /\ Len(pOut.res.out) = Len(Stamped(pEntries))
        /\ C7_OnlyWhenNeeded
        /\ \A k \in 1..Len(pOut.res.trace) :
             LET r == ArticleResult(k)
                 b == pOut.res.trace[k].before
                 o == pOut.res.out[k]
             IN /\ ~pOut.res.trace[k].get => o = b
                /\ (pOut.res.trace[k].get /\ r.exc) => o = b /\ o.content = <<>>
                /\ (pOut.res.trace[k].get /\ ~r.exc /\ r.text = None) =>
                     /\ o.content = <<>>
                     /\ [o EXCEPT !.authors = b.authors] = b
                     /\ o.authors = IF b.authors = <<>> THEN r.authors ELSE b.authors

\* A run whose first entry's article GET timed out and whose second entry's
\* article page had authors but no text
C7_Witness ==
    /\ pOut.run
    /\ Len(pOut.res.out) = 2
    /\ pOut.res.trace[1].get /\ ArticleResult(1).exc
    /\ pOut.res.trace[2].get /\ ~ArticleResult(2).exc
    /\ ArticleResult(2).text = None /\ ArticleResult(2).authors # <<>>
    /\ pOut.res.out[1].content = <<>>
    /\ pOut.res.out[2].content = <<>>

----------------------------------------------------------------------------
(* Claims about collect_from_urls (Spec) *)

Raised(h) == h.o.kind # ""

\* C1: collect_from_urls returns normally whatever each URL's fetches do: no
\* exception leaves the call, a URL whose dispatch raises adds nothing to the
\* result, and every URL of the list is dispatched once, in order.
C1_NoExceptionEscapes ==
    /\ pc # "escaped"
    /\ Len(hist) = idx - 1
    /\ pc = "done" => Len(hist) = Len(urls)
    /\ \A i \in 1..Len(hist) :
         /\ hist[i].url = urls[i]
         /\ Raised(hist[i]) => hist[i].after = hist[i].before

\* The call returned after a first URL whose listing raised on its second
\* child and whose retry timed out, and a second URL that gave records
C1_Witness ==
    /\ pc = "done"
    /\ Len(hist) = 2
    /\ Raised(hist[1])
    /\ hist[1].env.resp = JsonResp(Listing(<<PostSelf, PostNull>>))
    /\ hist[1].after = 0
    /\ ~Raised(hist[2])
    /\ hist[2].after > 0
    /\ combined = hist[2].o.items

\* C2: the returned list is the concatenation, in input order, of the lists
\* the URLs' producers returned, each in the producer's own order (a listing's
\* records follow its children).
C2_ConcatenationInOrder ==
    /\ combined = Flatten([i \in 1..Len(hist) |-> hist[i].o.items])
    /\ \A i \in 1..Len(hist) :
         (hist[i].o.calls = <<"fetch_reddit_subreddit">> /\ ~Raised(hist[i])) =>
             LET ch == hist[i].env.resp.body.children IN
             /\ Len(hist[i].o.items) = Len(ch)
             /\ \A k \in 1..Len(ch) :
                  /\ hist[i].o.items[k].id = ch[k].id
                  /\ combined[hist[i].before + k] = hist[i].o.items[k]

\* The call returned after a listing of two posts and a URL with another record
C2_Witness ==
    /\ pc = "done"
    /\ Len(hist) = 2
    /\ hist[1].o.calls = <<"fetch_reddit_subreddit">>
    /\ Len(hist[1].o.items) = 2
    /\ hist[2].o.path = "twitter"
    /\ Len(hist[2].o.items) = 1
    /\ Len(combined) = 3
    /\ combined[3] = hist[2].o.items[1]

RedditFetchers == {"fetch_reddit_post", "fetch_reddit_subreddit"}
TwitterFetchers == {"fetch_x_status"}
GenericFetchers == {"fetch_recent", "fetch_html", "extract_text"}

\* C3: a URL that contains reddit.com or redd.it or begins with r/ takes the
\* Reddit path; otherwise one that contains twitter.com or x.com takes the
\* Twitter path; every other URL takes the generic path; and only the
\* fetchers of the path taken are called.  (The match ignores case.)
C3_FirstMatchWins ==
    \A i \in 1..Len(hist) :
        LET u == LowerUrl(hist[i].url)
            reddit == "reddit.com" \in Range(u) \/ "redd.it" \in Range(u) \/ u[1] = "r/"
            twitter == "twitter.com" \in Range(u) \/ "x.com" \in Range(u)
            called == Range(hist[i].o.calls)
        IN /\ reddit => hist[i].o.path = "reddit" /\ called \subseteq RedditFetchers
           /\ (~reddit /\ twitter) =>
                hist[i].o.path = "twitter" /\ called \subseteq TwitterFetchers
           /\ (~reddit /\ ~twitter) =>
                hist[i].o.path = "generic" /\ called \subseteq GenericFetchers

\* A URL matching a Reddit and a Twitter rule was handled by the listing fetch
C3_Witness ==
    \E i \in 1..Len(hist) :
        /\ hist[i].url = BothUrl
        /\ hist[i].o.path = "reddit"
        /\ hist[i].o.calls = <<"fetch_reddit_subreddit">>
        /\ hist[i].o.items # <<>>

\* C4: on the generic path, when the resolver raised or returned a feed
\* without entries, the raw page is fetched (and, once fetched, run through
\* the text extractor).
C4_FallbackWhenFeedYieldsNothing ==
    \A i \in 1..Len(hist) :
        (hist[i].o.path = "generic" /\ hist[i].o.resolved \in {"raised", "empty"}) =>
            /\ "fetch_html" \in Range(hist[i].o.calls)
            /\ hist[i].env.page.status = "ok" => "extract_text" \in Range(hist[i].o.calls)

\* The post a single-post response carries, as a sequence of at most one
FirstPost(body) ==
    IF body.kind = "dict" THEN SubSeq(body.children, 1, 1)
    ELSE IF body.kind = "list" /\ body.items # <<>> /\ body.items[1].kind = "dict"
    THEN SubSeq(body.items[1].children, 1, 1)
    ELSE <<>>

\* C5: a feed record is dropped exactly when its published time is earlier
\* than now - hours (one at the cutoff is kept); the records of Reddit
\* listings, Reddit posts and tweets are all kept, whatever their age.
C5_RecencyFilterFeedOnly ==
    \A i \in 1..Len(hist) :
        LET h == hist[i] IN
        ~Raised(h) =>
          /\ (h.o.path = "generic" /\ h.o.resolved # "raised") =>
                h.o.items = SelectSeq(h.o.normalized,
                                      LAMBDA rec : rec.published[2] >= now - hours)
          /\ h.o.calls = <<"fetch_reddit_subreddit">> =>
                /\ Len(h.o.items) = Len(h.env.resp.body.children)
                /\ \A k \in 1..Len(h.o.items) :
                     h.o.items[k].published =
                        <<"iso", h.env.resp.body.children[k].created.t>>
          /\ (/\ h.o.calls = <<"fetch_reddit_post">>
              /\ h.env.resp.status = "ok" /\ h.env.resp.json = "ok"
              /\ FirstPost(h.env.resp.body) # <<>>
              /\ FirstPost(h.env.resp.body)[1].created.kind # "null") =>
                /\ Len(h.o.items) = 1
                /\ h.o.items[1].published =
                     <<"iso", FirstPost(h.env.resp.body)[1].created.t>>
          /\ (/\ h.o.path = "twitter"
              /\ h.env.resp.status = "ok" /\ h.env.resp.json = "ok"
              /\ h.env.resp.body.kind = "dict") =>
                /\ Len(h.o.items) = 1
                /\ h.o.items[1].published = None

\* With hours = 2: a feed of four entries lost the two older than the cutoff
\* and kept the one at the cutoff, and a listing kept a post older than it
C5_Witness ==
    /\ pc = "done"
    /\ hours = 2
    /\ Len(hist) = 2
    /\ hist[1].env.resp.feed = TimesFeed
    /\ Len(hist[1].o.normalized) = 4
    /\ Len(hist[1].o.items) = 2
    /\ hist[1].o.items[2].published = <<"iso", now - hours>>
    /\ hist[2].o.calls = <<"fetch_reddit_subreddit">>
    /\ \E k \in 1..Len(hist[2].o.items) : hist[2].o.items[k].published[2] < now - hours

\* C11: the best-effort leaf fetchers never raise.  Whatever the transport
\* does (timeout, error status) and whatever shape the response has,
\* fetch_reddit_post returns an empty or a one-element list and
\* fetch_x_status returns None or one record, neither letting an exception
\* out; a Twitter URL adds zero or one record to the batch.
C11_LeafFetchersNeverRaise ==
    \A i \in 1..Len(hist) :
        LET h == hist[i] IN
        /\ "fetch_reddit_post" \in Range(h.o.calls) =>
              /\ h.o.leaf = ""
              /\ Len(h.o.items) <= 1
              /\ (h.env.resp.status # "ok" \/ h.env.resp.json = "bad") => h.o.items = <<>>
        /\ h.o.path = "twitter" =>
              /\ h.o.leaf = ""
              /\ h.o.kind = ""
              /\ Len(h.o.items) <= 1
              /\ h.after - h.before = Len(h.o.items)
              /\ (h.env.resp.status # "ok" \/ h.env.resp.json = "bad") => h.o.items = <<>>

\* A post URL answered by a list of strings and a tweet URL answered by
\* undecodable JSON each gave nothing, and a second tweet gave one record
C11_Witness ==
    /\ pc = "done"
    /\ Len(hist) = 2
    /\ hist[1].o.calls = <<"fetch_reddit_post">>
    /\ hist[1].env.resp \in {JsonResp(JsonList(<<[kind |-> "str"]>>)), FailResp("timeout")}
    /\ hist[1].o.items = <<>>
    /\ hist[2].o.path = "twitter"
    /\ hist[2].env.resp \in {BadJson, FailResp("http_error"), JsonResp(JsonList(<<>>))}
    /\ hist[2].after = hist[2].before

\* C12: in every record collect_from_urls returns, published is null exactly
\* when the record came from the Twitter path, whose records have source
\* "x"; the records of feeds, Reddit listings, Reddit posts and the raw-page
\* fallback all carry a published time.
C12_PublishedNullOnlyForTwitter ==
    /\ \A i \in 1..Len(hist) :
         \A k \in 1..Len(hist[i].o.items) :
            LET rec == hist[i].o.items[k] IN
            /\ rec.published = None <=> hist[i].o.path = "twitter"
            /\ hist[i].o.path = "twitter" => rec.source = <<"x">>
            /\ rec.published # None => rec.published[1] = "iso"
    /\ \A k \in 1..Len(combined) :
         combined[k].published = None <=> combined[k].source = <<"x">>

\* The returned list holds a tweet without published and a raw-page record
\* with one
C12_Witness ==
    /\ pc = "done"
    /\ Len(combined) = 2
    /\ Len(hist) = 2
    /\ hist[1].o.path = "twitter"
    /\ combined[1].source = <<"x">>
    /\ combined[1].published = None
    /\ hist[2].o.resolved = "raised"
    /\ combined[2].published = <<"iso", now>>

\* C17: no request is retried.  While one input URL is processed, once a
\* GET of some URL has failed (timeout or error status) no later GET goes to
\* that same URL.
C17_NoGetAfterFailedGet ==
    \A i \in 1..Len(hist) :
        LET g == hist[i].o.gets IN
        \A a, b \in 1..Len(g) : (a < b /\ ~g[a].ok) => g[b].url # g[a].url

\* C18: a URL on the Reddit path is fetched by exactly one Reddit entry
\* point: fetch_reddit_post when it contains /comments/, otherwise
\* fetch_reddit_subreddit -- also when the URL came to the Reddit path by
\* beginning with r/ or by containing redd.it.
C18_OneRedditEntryPoint ==
    \A i \in 1..Len(hist) :
        hist[i].o.path = "reddit" =>
            IF Contains(LowerUrl(hist[i].url), "/comments/")
            THEN Range(hist[i].o.calls) = {"fetch_reddit_post"}
            ELSE Range(hist[i].o.calls) = {"fetch_reddit_subreddit"}

\* A URL's first fetch was the listing fetch and Reddit answered with a
\* listing whose posts all have a usable creation time (a number, or no key
\* at all, which the code reads as 0)
ListingReturned(h) ==
    /\ h.o.calls # <<>>
    /\ h.o.calls[1] = "fetch_reddit_subreddit"
    /\ h.env.resp.status = "ok" /\ h.env.resp.json = "ok"
    /\ h.env.resp.body.kind = "dict"
    /\ \A k \in 1..Len(h.env.resp.body.children) :
         h.env.resp.body.children[k].created.kind # "null"

\* C19: for a listing returned by Reddit, fetch_reddit_subreddit returns one
\* record per child post, in listing order, each with published taken from
\* the post's created_utc and source reddit:<subreddit>, content being the
\* self-text when there is one; no child is dropped, and when the fetch of a
\* post's external URL fails its record is still there, with empty content.
C19_OneRecordPerChild ==
    \A i \in 1..Len(hist) :
        LET h == hist[i]
            ch == h.env.resp.body.children
        IN ListingReturned(h) =>
            /\ h.o.calls = <<"fetch_reddit_subreddit">>
            /\ ~Raised(h)
            /\ Len(h.o.items) = Len(ch)
            /\ \A k \in 1..Len(ch) :
                 LET rec == h.o.items[k] IN
                 /\ rec.id = ch[k].id
                 /\ rec.published = <<"iso", ch[k].created.t>>
                 /\ rec.source = <<"reddit:", "news">>
                 /\ ch[k].selftext # <<>> => rec.content = ch[k].selftext
                 /\ (ch[k].selftext = <<>> /\ h.env.pages[k].status # "ok") =>
                       rec.content = <<>>

\* A listing of a self post and a link post whose page timed out gave two
\* records, the second with empty content
C19_Witness ==
    \E i \in 1..Len(hist) :
        /\ ListingReturned(hist[i])
        /\ hist[i].env.resp.body.children = <<PostSelf, PostLink>>
        /\ hist[i].env.pages[2].status = "timeout"
        /\ Len(hist[i].o.items) = 2
        /\ hist[i].o.items[1].content = <<"self">>
        /\ hist[i].o.items[2].content = <<>>
        /\ hist[i].o.items[2].id = PostLink.id

\* C10: no record of the returned list names an author twice
C10_AuthorsHaveNoDuplicates ==
    \A k \in 1..Len(combined) : NoDup(combined[k].authors)

----------------------------------------------------------------------------
(* Claims about scripts/fetch_rss.py (SpecCli) *)

BlankLine(l) == \A j \in 1..Len(l) : l[j] = " "

\* No --url was given and the input gives no URL: piped input has only
\* blank lines, typed input ends (EOF or blank line) before any URL
NoUrlAvailable ==
    /\ cArgs = <<>>
    /\ IF cTty THEN cInput = <<>> \/ BlankLine(cInput[1])
       ELSE \A i \in 1..Len(cInput) : BlankLine(cInput[i])

\* C13: main returns 2 without writing the output file exactly when no URL
\* is available from --url, piped input or the prompt; otherwise it fetches
\* every URL, writes the records of the fetches that succeeded and returns
\* 0, however many of the fetches failed.
C13_ExitCodes ==
    /\ cExit # Some(0) => cWritten = None
    /\ cPc = "exit" =>
         /\ NoUrlAvailable => cExit = Some(2) /\ cWritten = None /\ cLog = <<>>
         /\ ~NoUrlAvailable =>
              /\ cExit = Some(0)
              /\ Len(cLog) = Len(cUrls)
              /\ cWritten = Some(Flatten([i \in 1..Len(cLog) |-> cLog[i].items]))

\* Two URLs typed at the prompt both failed and main still wrote the (empty)
\* output and returned 0
C13_Witness ==
    /\ cPc = "exit"
    /\ cArgs = <<>> /\ cTty
    /\ Len(cLog) = 2
    /\ \A i \in 1..Len(cLog) : cLog[i].failed
    /\ cWritten = Some(<<>>)
    /\ cExit = Some(0)

----------------------------------------------------------------------------
(* Claims about the feed resolver (SpecFeed) *)

\* The links and anchors of the page that qualify, by position
GoodLinks ==
    {i \in 1..Len(fResp.links) :
        /\ \E k \in 1..Len(fResp.links[i].rel) : InStr(fResp.links[i].rel[k], "alternate")
        /\ \E pat \in {"rss", "xml", "atom"} : TokHas(fResp.links[i].type, pat)
        /\ fResp.links[i].href # None}

GoodAnchors ==
    {i \in 1..Len(fResp.anchors) :
        \E k \in 1..Len(fResp.anchors[i]) :
            \E pat \in {"rss", "feed", "atom"} : TokHas(fResp.anchors[i][k], pat)}

Least(S) == CHOOSE i \in S : \A j \in S : i <= j

\* A reference resolved against https://example.com/page
AgainstBase(href) ==
    IF href[1] = "https://" THEN href
    ELSE IF href[1] \in {"/feed.xml", "/RSS", "/about"}
    THEN <<"https://", "example.com">> \o href
    ELSE <<"https://", "example.com", "/">> \o href

\* C14: feed discovery returns the href of the first qualifying <link> (rel
\* contains alternate, type contains rss, xml or atom, href present),
\* resolved against the base URL -- /feed.xml on https://example.com/page
\* gives https://example.com/feed.xml; with no such link, the href of the
\* first anchor containing rss, feed or atom; with neither, no candidate.
C14_DiscoveryPriority ==
    fResolve.run =>
        /\ GoodLinks # {} =>
              fResolve.res = Some(AgainstBase(fResp.links[Least(GoodLinks)].href[1]))
        /\ (GoodLinks = {} /\ GoodAnchors # {}) =>
              fResolve.res = Some(AgainstBase(fResp.anchors[Least(GoodAnchors)]))
        /\ (GoodLinks = {} /\ GoodAnchors = {}) => fResolve.res = None
        /\ (fResp.links # <<>> /\ fResp.links[1] = FeedLink) =>
              fResolve.res = Some(<<"https://", "example.com", "/feed.xml">>)

\* On a page whose second link is the first that qualifies and which also
\* has a feed anchor, the link was returned, resolved against the base
C14_Witness ==
    /\ fResolve.run
    /\ fResp.links = <<StyleLink, FeedLink>>
    /\ GoodAnchors # {}
    /\ fResolve.res = Some(<<"https://", "example.com", "/feed.xml">>)

\* Discovery is reached: the first answer is fine, has no entries and its
\* Content-Type names no feed
Discovers ==
    /\ fResp.status = "ok"
    /\ fResp.feed.entries = <<>>
    /\ ~\E pat \in {"xml", "rss", "atom"} : InStr(fResp.ctype, pat)

Candidate ==
    IF GoodLinks # {} THEN Some(AgainstBase(fResp.links[Least(GoodLinks)].href[1]))
    ELSE IF GoodAnchors # {} THEN Some(AgainstBase(fResp.anchors[Least(GoodAnchors)]))
    ELSE None

FirstGet == [url |-> BaseUrl, ok |-> fResp.status = "ok"]

\* C15: fetch_feed returns the first parse when it has an entry; else the
\* first parse, with no discovery and no second request, when the
\* Content-Type contains xml, rss or atom; else the parse of the discovered
\* candidate, even without entries; else the first parse.  It issues at most
\* two GETs.
C15_StepsInOrder ==
    fFeed.run =>
        LET r == fFeed.res IN
        /\ Len(r.gets) <= 2
        /\ r.gets[1] = FirstGet
        /\ (fResp.status = "ok" /\ ~(Discovers /\ Candidate # None)) =>
              /\ ~r.exc
              /\ r.feed = fResp.feed
              /\ r.gets = <<FirstGet>>
        /\ (Discovers /\ Candidate # None) =>
              /\ Len(r.gets) = 2
              /\ r.gets[2].url = Candidate[1]
              /\ fResp2.status = "ok" => ~r.exc /\ r.feed = fResp2.feed

\* fetch_feed returned the entry-less parse of a discovered feed
C15_Witness ==
    /\ fFeed.run
    /\ Discovers
    /\ Candidate # None
    /\ fResp2 = FeedResp("text/html", NoFeed)
    /\ ~fFeed.res.exc
    /\ fFeed.res.feed.entries = <<>>
    /\ Len(fFeed.res.gets) = 2

\* What a resolver's result must be when a request of it fails
Propagates(r) ==
    /\ fResp.status # "ok" =>
          r.exc /\ r.kind = fResp.status /\ r.gets = <<FirstGet>>
    /\ (Discovers /\ Candidate # None /\ fResp2.status # "ok") =>
          /\ r.exc /\ r.kind = fResp2.status
          /\ r.gets = <<FirstGet, [url |-> Candidate[1], ok |-> FALSE]>>
    /\ r.exc => ~r.gets[Len(r.gets)].ok
    /\ \A i \in 1..(Len(r.gets) - 1) : r.gets[i].ok

\* C16: a timeout or an error status on either GET of fetch_feed -- of the
\* given URL or of the discovered feed URL -- raises out of fetch_feed and
\* out of fetch_recent; the failed GET is the last request made and no parse
\* result is returned.
C16_TransportErrorsPropagate ==
    /\ fFeed.run => Propagates(fFeed.res)
    /\ fRecent.run => Propagates(fRecent.res)

\* The GET of a discovered feed URL timed out and both callers raised
C16_Witness ==
    /\ fFeed.run /\ fRecent.run
    /\ Discovers
    /\ Candidate # None
    /\ fResp2 = FailResp("timeout")
    /\ fFeed.res.exc /\ fFeed.res.kind = "timeout"
    /\ fRecent.res.exc /\ fRecent.res.kind = "timeout"
    /\ Len(fRecent.res.gets) = 2

====
